---- MODULE Spec2Model ----
(***************************************************************************)
(* Model of the portfolio RAG backend (main.py): the markdown chunker, the *)
(* cosine ranking, the SQLite-backed knowledge base with its one-time      *)
(* ingestion, and the chat / health handlers served by worker threads that *)
(* share one connection and one cursor.                                    *)
(*                                                                         *)
(* Python strings are sequences of one-character strings.  Embedding       *)
(* vectors are sequences of integers; every vector the model draws has an  *)
(* integer Euclidean norm, so math.sqrt is exact on them and a cosine is   *)
(* the exact fraction dot / (norm1 * norm2).                               *)
(***************************************************************************)
EXTENDS Integers, Sequences, FiniteSets, TLC

VARIABLES
    GEMINI_API_KEY,  \* TRUE iff the environment holds the credential
    profile,         \* the file at PROFILE_PATH: [exists, text]
    persisted,       \* rows of table chunks that are durable in the .db file
    pending,         \* rows inserted in the connection's open transaction
    phase,           \* "down" | "ingesting" | "serving"
    rag_engine,      \* the global: "None" | "RAGEngine"
    raw_chunks,      \* local of _initialize_knowledge_base
    i,               \* loop index of the ingestion loop (enumerate)
    cursor,          \* self.cursor: the unfetched rows of the last SELECT
    tpc,             \* per worker thread: "idle" | "embedded" | "executed" | "done"
    query_vec,       \* per worker thread: local query_vec of generate_response
    answer,          \* per worker thread: what chat returned, with its context
    gen_calls,       \* per worker thread: generate_content calls of the request
    embed_log,       \* history: what embed_content did for each chunk of this run
    first_count,     \* history: table count when _initialize_knowledge_base first
                     \* returned (-1 before)
    init_runs,       \* history: returns of _initialize_knowledge_base, counted up to 2
    lost,            \* history: uncommitted rows discarded by process stops since the
                     \* last return of _initialize_knowledge_base, counted up to 1
    text,            \* chunker call: the input document
    chunks,          \* chunker call: the returned list
    cpc              \* chunker call: "off" | "call" | "returned"

envVars    == <<GEMINI_API_KEY, profile>>
dbVars     == <<persisted, pending>>
procVars   == <<phase, rag_engine, raw_chunks, i, cursor>>
threadVars == <<tpc, query_vec, answer, gen_calls>>
histVars   == <<embed_log, first_count, init_runs, lost>>
chunkVars  == <<text, chunks, cpc>>
vars == <<envVars, dbVars, procVars, threadVars, histVars, chunkVars>>

-----------------------------------------------------------------------------
(* Program constants *)

VECTOR_DIM == 768
TOP_K == 4

INSUFFICIENT_MSG == "I don't have enough information in my profile to answer that."
EMBED_FAIL_MSG   == "System is not ready or failed to understand the query."
NOT_READY_MSG    == "System is initializing or missing API Key. Please try again in a moment."
GENERATED        == "response.text"
GEN_ERROR        == "Error generating response: e"

(* Bounds of the model *)

MaxDocLen == 7        \* longest document given to the chunker
MaxSections == 2      \* sections of the largest profile of Spec
MaxRankSections == 5  \* sections of the profile of SpecRank

-----------------------------------------------------------------------------
(* Python str operations *)

NL == "\n"
H2 == <<"#", "#", " ">>
H3 == <<"#", "#", "#", " ">>
CONTEXT_SEP == <<NL, NL, "-", "-", "-", NL, NL>>

IsSpace(c) == c \in {" ", "\t", "\n", "\r"}

RECURSIVE lstrip(_)
lstrip(s) == IF s # <<>> /\ IsSpace(Head(s)) THEN lstrip(Tail(s)) ELSE s

RECURSIVE rstrip(_)
rstrip(s) ==
    IF s # <<>> /\ IsSpace(s[Len(s)]) THEN rstrip(SubSeq(s, 1, Len(s) - 1)) ELSE s

strip(s) == rstrip(lstrip(s))

startswith(s, prefix) ==
    Len(s) >= Len(prefix) /\ SubSeq(s, 1, Len(prefix)) = prefix

RECURSIVE split_acc(_, _, _)
split_acc(s, cur, out) ==
    IF s = <<>> THEN Append(out, cur)
    ELSE IF Head(s) = NL THEN split_acc(Tail(s), <<>>, Append(out, cur))
    ELSE split_acc(Tail(s), Append(cur, Head(s)), out)

\* text.split('\n')
str_split(s) == split_acc(s, <<>>, <<>>)

\* sep.join(parts)
RECURSIVE str_join(_, _)
str_join(sep, parts) ==
    IF parts = <<>> THEN <<>>
    ELSE IF Len(parts) = 1 THEN parts[1]
    ELSE parts[1] \o sep \o str_join(sep, Tail(parts))

-----------------------------------------------------------------------------
(* split_markdown_into_chunks *)

is_boundary(line) ==
    startswith(strip(line), H2) \/ startswith(strip(line), H3)

close_chunk(out, current_chunk) ==
    IF current_chunk # <<>>
    THEN Append(out, strip(str_join(<<NL>>, current_chunk)))
    ELSE out

RECURSIVE chunk_loop(_, _, _)
chunk_loop(lines, out, current_chunk) ==
    IF lines = <<>> THEN close_chunk(out, current_chunk)
    ELSE IF is_boundary(Head(lines))
         THEN chunk_loop(Tail(lines), close_chunk(out, current_chunk), <<Head(lines)>>)
         ELSE chunk_loop(Tail(lines), out, Append(current_chunk, Head(lines)))

\* Mutant: the chunk open at the end of the input is never closed.
RECURSIVE chunk_loop_no_flush(_, _, _)
chunk_loop_no_flush(lines, out, current_chunk) ==
    IF lines = <<>> THEN out
    ELSE IF is_boundary(Head(lines))
         THEN chunk_loop_no_flush(Tail(lines), close_chunk(out, current_chunk),
                                  <<Head(lines)>>)
         ELSE chunk_loop_no_flush(Tail(lines), out, Append(current_chunk, Head(lines)))

split_no_flush(doc) ==
    SelectSeq(chunk_loop_no_flush(str_split(doc), <<>>, <<>>), LAMBDA c : c # <<>>)

split_markdown_into_chunks(doc) ==
    SelectSeq(chunk_loop(str_split(doc), <<>>, <<>>), LAMBDA c : c # <<>>)

-----------------------------------------------------------------------------
(* cosine_similarity *)

\* sum(a * b for a, b in zip(v1, v2)) over positions lo..hi (halved, so that the
\* evaluation depth stays logarithmic in the dimension)
RECURSIVE dot_range(_, _, _, _)
dot_range(v1, v2, lo, hi) ==
    IF lo > hi THEN 0
    ELSE IF lo = hi THEN v1[lo] * v2[lo]
    ELSE LET mid == (lo + hi) \div 2
         IN  dot_range(v1, v2, lo, mid) + dot_range(v1, v2, mid + 1, hi)

dot(v1, v2) == dot_range(v1, v2, 1, IF Len(v1) < Len(v2) THEN Len(v1) ELSE Len(v2))

\* math.sqrt on the sums of squares the model produces (all perfect squares)
sqrt(n) == CHOOSE r \in 0..n : r * r = n

Zero == [num |-> 0, den |-> 1]

\* The float returned, as the fraction num / den with den > 0.
cosine_similarity(v1, v2) ==
    IF v1 = <<>> \/ v2 = <<>> \/ Len(v1) # Len(v2) THEN Zero
    ELSE LET dot_product == dot(v1, v2)
             norm_v1 == sqrt(dot(v1, v1))
             norm_v2 == sqrt(dot(v2, v2))
         IN  IF norm_v1 = 0 \/ norm_v2 = 0 THEN Zero
             ELSE [num |-> dot_product, den |-> norm_v1 * norm_v2]

ScoreLess(a, b) == a.num * b.den < b.num * a.den
ScoreEq(a, b)   == a.num * b.den = b.num * a.den

-----------------------------------------------------------------------------
(* json.dumps / json.loads of a vector: one decimal token per component *)

Components == -4..4

\* The decimal token of each number
NumberToken == [n \in Components |-> ToString(n)]

json_dumps(v) == [k \in 1..Len(v) |-> NumberToken[v[k]]]

parse_number(tok) == CHOOSE n \in Components : NumberToken[n] = tok

json_loads(s) == [k \in 1..Len(s) |-> parse_number(s[k])]

-----------------------------------------------------------------------------
(* The environment: the profile file and the remote embedding capability *)

Letters == <<"a", "b", "c", "d", "e", "f", "g", "h">>

\* One section of a profile: a level-2 or level-3 heading and a body line.
Section(k) == (IF k % 2 = 1 THEN H2 ELSE H3) \o <<Letters[k], NL, "x", NL>>

RECURSIVE ProfileText(_)
ProfileText(n) == IF n = 0 THEN <<>> ELSE ProfileText(n - 1) \o Section(n)

NoFile == [exists |-> FALSE, text |-> <<>>]
File(t) == [exists |-> TRUE, text |-> t]

\* No file, an empty file, or MaxSections sections.
Profiles == {NoFile, File(<<>>), File(ProfileText(MaxSections))}

\* A vector of the configured dimension (norm 1).
UnitVec == [k \in 1..VECTOR_DIM |-> IF k = 1 THEN 1 ELSE 0]

\* What client.models.embed_content does: raise, or return a response.
Raise == [raised |-> TRUE, embeddings |-> <<>>]
Response(embs) == [raised |-> FALSE, embeddings |-> embs]
Responses(vectors) == {Raise, Response(<<>>)} \cup {Response(<<v>>) : v \in vectors}

ChunkResponses == Responses({<<1, 0>>, UnitVec})
QueryResponses == Responses({<<1, 0>>, UnitVec})

RankChunkVectors == {<<1, 0>>, <<2, 0>>, <<0, 1>>, <<3, 4>>}
RankQueryVectors == {<<1, 0>>, <<0, 1>>, <<-4, -3>>, <<0, 0>>, <<1>>}
RankChunkResponses == {Response(<<>>)} \cup {Response(<<v>>) : v \in RankChunkVectors}
RankQueryResponses == {Raise} \cup {Response(<<v>>) : v \in RankQueryVectors}

Threads == {1, 2}

\* The chunk of section k, as the chunker returns it.
ProfileRow(k) == (IF k % 2 = 1 THEN H2 ELSE H3) \o <<Letters[k], NL, "x">>

-----------------------------------------------------------------------------
(* RAGEngine *)

_get_embedding(response) ==
    IF ~response.raised /\ Len(response.embeddings) > 0
    THEN response.embeddings[1]
    ELSE <<>>

\* What the connection reads: committed rows, then its own uncommitted ones,
\* in rowid order (ids are inserted in ascending order into an empty table).
TableView == persisted \o pending

Row(id, txt, vector_str) == [id |-> id, text |-> txt, vector_json |-> vector_str]

\* Mutant: the populated-table check is missing.
never_populated(count) == FALSE

\* if count > 0: return
already_populated(count) == count > 0

\* Mutant: the insert is not guarded by "if embedding".
InsertChunkUnguarded(idx, txt, embedding) ==
    /\ pending' = Append(pending, Row(idx, txt, json_dumps(embedding)))
    /\ UNCHANGED persisted

\* Mutant: every insert is committed at once (autocommit).
InsertChunkAutocommit(idx, txt, embedding) ==
    /\ persisted' = IF embedding # <<>>
                    THEN Append(persisted, Row(idx, txt, json_dumps(embedding)))
                    ELSE persisted
    /\ UNCHANGED pending

\* if embedding: cursor.execute("INSERT INTO chunks ...", (i, text, vector_str))
InsertChunk(idx, txt, embedding) ==
    /\ pending' = IF embedding # <<>>
                  THEN Append(pending, Row(idx, txt, json_dumps(embedding)))
                  ELSE pending
    /\ UNCHANGED persisted

\* self.conn.commit()
ConnCommit ==
    /\ persisted' = persisted \o pending
    /\ pending' = <<>>

NoReply == [msg |-> "", relevant_texts |-> <<>>]
Reply(msg, texts) == [msg |-> msg, relevant_texts |-> texts]

\* History kept when _initialize_knowledge_base returns with `count` rows in the table.
InitReturned(count) ==
    /\ first_count' = IF first_count < 0 THEN count ELSE first_count
    /\ init_runs' = IF init_runs < 2 THEN init_runs + 1 ELSE init_runs
    /\ lost' = 0

\* startup_event up to the first embedding call of the ingestion loop
Startup ==
    /\ phase = "down"
    /\ cpc = "off"
    /\ IF ~GEMINI_API_KEY
       THEN /\ phase' = "serving"
            /\ UNCHANGED <<rag_engine, raw_chunks, i, first_count, init_runs, lost>>
       ELSE LET count == Len(TableView) IN
            IF already_populated(count) \/ ~profile.exists
            THEN /\ phase' = "serving"
                 /\ rag_engine' = "RAGEngine"
                 /\ InitReturned(count)
                 /\ UNCHANGED <<raw_chunks, i>>
            ELSE /\ phase' = "ingesting"
                 /\ raw_chunks' = split_markdown_into_chunks(profile.text)
                 /\ i' = 0
                 /\ UNCHANGED <<rag_engine, first_count, init_runs, lost>>
    /\ UNCHANGED <<envVars, dbVars, cursor, threadVars, embed_log, chunkVars>>

\* One iteration of: for i, text in enumerate(raw_chunks)
IngestStep(responses) ==
    /\ phase = "ingesting"
    /\ i < Len(raw_chunks)
    /\ \E response \in responses :
          LET embedding == _get_embedding(response) IN
          /\ InsertChunk(i, raw_chunks[i + 1], embedding)
          /\ embed_log' = Append(embed_log, response)
    /\ i' = i + 1
    /\ UNCHANGED <<envVars, phase, rag_engine, raw_chunks, cursor, threadVars,
                   first_count, init_runs, lost, chunkVars>>

\* The commit after the loop; __init__ returns and startup_event sets the global.
Commit ==
    /\ phase = "ingesting"
    /\ i = Len(raw_chunks)
    /\ ConnCommit
    /\ phase' = "serving"
    /\ rag_engine' = "RAGEngine"
    /\ InitReturned(Len(persisted'))
    /\ UNCHANGED <<envVars, raw_chunks, i, cursor, threadVars, embed_log, chunkVars>>

\* The process ends (killed or shut down): only the committed rows survive.
Stop ==
    /\ phase \in {"ingesting", "serving"}
    /\ phase' = "down"
    /\ pending' = <<>>
    /\ lost' = IF pending # <<>> THEN 1 ELSE lost
    /\ rag_engine' = "None"
    /\ raw_chunks' = <<>>
    /\ i' = 0
    /\ cursor' = <<>>
    /\ tpc' = [t \in Threads |-> "idle"]
    /\ query_vec' = [t \in Threads |-> <<>>]
    /\ answer' = [t \in Threads |-> NoReply]
    /\ gen_calls' = [t \in Threads |-> 0]
    /\ embed_log' = <<>>
    /\ UNCHANGED <<envVars, persisted, first_count, init_runs, chunkVars>>

-----------------------------------------------------------------------------
(* generate_response: scoring and ranking *)

scored_chunks(qv, rows) ==
    [k \in 1..Len(rows) |->
        [score |-> cosine_similarity(qv, json_loads(rows[k].vector_json)),
         text  |-> rows[k].text]]

\* Mutant: an element goes before the elements of equal score (ties reversed).
RECURSIVE insert_desc_ties_reversed(_, _)
insert_desc_ties_reversed(sorted, e) ==
    IF sorted = <<>> THEN <<e>>
    ELSE IF ~ScoreLess(e.score, Head(sorted).score) THEN <<e>> \o sorted
    ELSE <<Head(sorted)>> \o insert_desc_ties_reversed(Tail(sorted), e)

\* list.sort(key=score, reverse=True) is stable: equal scores keep their order.
RECURSIVE insert_desc(_, _)
insert_desc(sorted, e) ==
    IF sorted = <<>> THEN <<e>>
    ELSE IF ScoreLess(Head(sorted).score, e.score) THEN <<e>> \o sorted
    ELSE <<Head(sorted)>> \o insert_desc(Tail(sorted), e)

RECURSIVE sort_desc(_)
sort_desc(s) ==
    IF s = <<>> THEN <<>>
    ELSE insert_desc(sort_desc(SubSeq(s, 1, Len(s) - 1)), s[Len(s)])

top_k(sorted) == SubSeq(sorted, 1, IF Len(sorted) < TOP_K THEN Len(sorted) ELSE TOP_K)

relevant_texts(qv, rows) ==
    LET top == top_k(sort_desc(scored_chunks(qv, rows)))
    IN  [k \in 1..Len(top) |-> top[k].text]

\* Mutant: the failed-embedding check is missing.
embedding_never_failed(qv) == FALSE

\* if not query_vec: return "System is not ready ..."
embedding_failed(qv) == qv = <<>>

\* Mutant: the empty-context check is missing.
context_never_empty(context_str) == FALSE

\* if not context_str: return "I don't have enough information ..."
context_is_empty(context_str) == context_str = <<>>

-----------------------------------------------------------------------------
(* chat and health, run by the server's worker threads *)

\* chat up to the return of _get_embedding(query)
ChatBegin(t, responses) ==
    /\ phase = "serving"
    /\ tpc[t] = "idle"
    /\ IF rag_engine = "None"
       THEN /\ answer' = [answer EXCEPT ![t] = Reply(NOT_READY_MSG, <<>>)]
            /\ tpc' = [tpc EXCEPT ![t] = "done"]
            /\ UNCHANGED query_vec
       ELSE \E response \in responses :
              LET qv == _get_embedding(response) IN
              /\ query_vec' = [query_vec EXCEPT ![t] = qv]
              /\ IF embedding_failed(qv)
                 THEN /\ answer' = [answer EXCEPT ![t] = Reply(EMBED_FAIL_MSG, <<>>)]
                      /\ tpc' = [tpc EXCEPT ![t] = "done"]
                 ELSE /\ tpc' = [tpc EXCEPT ![t] = "embedded"]
                      /\ UNCHANGED answer
    /\ UNCHANGED <<envVars, dbVars, procVars, gen_calls, histVars, chunkVars>>

\* self.cursor.execute("SELECT text, vector_json FROM chunks")
ChatExecute(t) ==
    /\ tpc[t] = "embedded"
    /\ cursor' = TableView
    /\ tpc' = [tpc EXCEPT ![t] = "executed"]
    /\ UNCHANGED <<envVars, dbVars, phase, rag_engine, raw_chunks, i, query_vec, answer,
                   gen_calls, histVars, chunkVars>>

\* rows = self.cursor.fetchall(), then ranking, the prompt and generate_content
ChatFetch(t) ==
    /\ tpc[t] = "executed"
    /\ cursor' = <<>>
    /\ tpc' = [tpc EXCEPT ![t] = "done"]
    /\ LET rows == cursor
           texts == relevant_texts(query_vec[t], rows)
           context_str == str_join(CONTEXT_SEP, texts)
       IN  IF context_is_empty(context_str)
           THEN /\ answer' = [answer EXCEPT ![t] = Reply(INSUFFICIENT_MSG, texts)]
                /\ UNCHANGED gen_calls
           ELSE /\ gen_calls' = [gen_calls EXCEPT ![t] = @ + 1]
                /\ \E generated \in BOOLEAN :
                      answer' = [answer EXCEPT ![t] =
                          Reply(IF generated THEN GENERATED ELSE GEN_ERROR, texts)]
    /\ UNCHANGED <<envVars, dbVars, phase, rag_engine, raw_chunks, i, query_vec,
                   histVars, chunkVars>>

\* The response is sent; the worker thread takes the next request.
ChatReturn(t) ==
    /\ tpc[t] = "done"
    /\ tpc' = [tpc EXCEPT ![t] = "idle"]
    /\ query_vec' = [query_vec EXCEPT ![t] = <<>>]
    /\ answer' = [answer EXCEPT ![t] = NoReply]
    /\ gen_calls' = [gen_calls EXCEPT ![t] = 0]
    /\ UNCHANGED <<envVars, dbVars, procVars, histVars, chunkVars>>

\* GET /health: the response, a function of the global alone
health == [status |-> "ok", rag_ready |-> rag_engine # "None"]

-----------------------------------------------------------------------------
(* Specifications *)

Idle ==
    /\ persisted = <<>>
    /\ pending = <<>>
    /\ phase = "down"
    /\ rag_engine = "None"
    /\ raw_chunks = <<>>
    /\ i = 0
    /\ cursor = <<>>
    /\ tpc = [t \in Threads |-> "idle"]
    /\ query_vec = [t \in Threads |-> <<>>]
    /\ answer = [t \in Threads |-> NoReply]
    /\ gen_calls = [t \in Threads |-> 0]
    /\ embed_log = <<>>
    /\ first_count = -1
    /\ init_runs = 0
    /\ lost = 0

\* The service: a fresh database file, any credential and profile file.
Init ==
    /\ GEMINI_API_KEY \in BOOLEAN
    /\ profile \in Profiles
    /\ Idle
    /\ text = <<>>
    /\ chunks = <<>>
    /\ cpc = "off"

Next ==
    \/ Startup
    \/ IngestStep(ChunkResponses)
    \/ Commit
    \/ Stop
    \/ \E t \in Threads : ChatBegin(t, QueryResponses)
    \/ \E t \in Threads : ChatExecute(t)
    \/ \E t \in Threads : ChatFetch(t)
    \/ \E t \in Threads : ChatReturn(t)

Spec == Init /\ [][Next]_vars

\* One process start and one request at a time, over a larger profile.
InitRank ==
    /\ GEMINI_API_KEY = TRUE
    /\ profile = File(ProfileText(MaxRankSections))
    /\ Idle
    /\ text = <<>>
    /\ chunks = <<>>
    /\ cpc = "off"

NextRank ==
    \/ Startup
    \/ IngestStep(RankChunkResponses)
    \/ Commit
    \/ ChatBegin(1, RankQueryResponses)
    \/ ChatExecute(1)
    \/ ChatFetch(1)

SpecRank == InitRank /\ [][NextRank]_vars

\* The chunker applied to every document over a small alphabet.
Alphabet == {" ", "#", "a", NL}
Docs == UNION {[1..n -> Alphabet] : n \in 0..MaxDocLen}

InitChunk ==
    /\ GEMINI_API_KEY = FALSE
    /\ profile = NoFile
    /\ Idle
    /\ text \in Docs
    /\ chunks = <<>>
    /\ cpc = "call"

ChunkCall ==
    /\ cpc = "call"
    /\ chunks' = split_markdown_into_chunks(text)
    /\ cpc' = "returned"
    /\ UNCHANGED <<envVars, dbVars, procVars, threadVars, histVars, text>>

NextChunk == ChunkCall

SpecChunk == InitChunk /\ [][NextChunk]_vars

-----------------------------------------------------------------------------
(* Properties *)

Served(t) == tpc[t] = "done" /\ rag_engine = "RAGEngine"

Failed(response) == response.raised \/ response.embeddings = <<>>

InitIdempotentAlways ==
    init_runs >= 2 => Len(persisted) = first_count

\* C2 (amended): if the first run of the initialization stored at least one chunk,
\* every later run is a no-op: it inserts nothing and the table keeps the number of
\* chunks the first run left.
InitIdempotentWhenPopulated ==
    first_count > 0 => (Len(persisted) = first_count /\ pending = <<>>)

SecondInitWasNoOp ==
    init_runs >= 2 /\ first_count > 0 /\ phase = "serving"

\* C3: after ingestion, every chunk had its embedding call; a chunk whose call
\* failed is not in the table, and every chunk whose call succeeded is there once,
\* with its own text and vector, also after another chunk's call failed.
IngestionFailSoft ==
    phase = "serving" =>
        /\ Len(embed_log) = Len(raw_chunks)
        /\ \A j \in 1..Len(raw_chunks) :
              LET stored == {r \in 1..Len(persisted) : persisted[r].id = j - 1} IN
              IF Failed(embed_log[j])
              THEN stored = {}
              ELSE /\ Cardinality(stored) = 1
                   /\ \A r \in stored :
                         /\ persisted[r].text = raw_chunks[j]
                         /\ json_loads(persisted[r].vector_json)
                               = embed_log[j].embeddings[1]

IngestedPastAFailure ==
    /\ phase = "serving"
    /\ \E j, k \in 1..Len(raw_chunks) :
          /\ j < k
          /\ Failed(embed_log[j])
          /\ ~Failed(embed_log[k])
          /\ \E r \in 1..Len(persisted) : persisted[r].id = k - 1

ContextRanked(t) ==
    LET rows == TableView
        ctx == answer[t].relevant_texts
        n == Len(rows)
        m == IF n < TOP_K THEN n ELSE TOP_K
        score(r) == cosine_similarity(query_vec[t], json_loads(rows[r].vector_json))
    IN  /\ Len(ctx) = m
        /\ \A k \in 1..m : \E r \in 1..n : rows[r].text = ctx[k]
        /\ LET p == [k \in 1..m |-> CHOOSE r \in 1..n : rows[r].text = ctx[k]] IN
           /\ \A k, l \in 1..m :
                 k < l =>
                    \/ ScoreLess(score(p[l]), score(p[k]))
                    \/ /\ ScoreEq(score(p[l]), score(p[k]))
                       /\ rows[p[k]].id < rows[p[l]].id
           /\ \A r \in 1..n :
                 (\A k \in 1..m : p[k] # r) =>
                    \A k \in 1..m : ~ScoreLess(score(p[k]), score(r))

\* C5: for a populated store of N chunks and a non-empty query vector, the context
\* is exactly min(4, N) chunk texts in descending order of cosine similarity, equal
\* scores in ascending id order, and no chunk left out scores higher than one kept.
ContextIsTopK ==
    \A t \in Threads :
        (Served(t) /\ TableView # <<>> /\ query_vec[t] # <<>>) => ContextRanked(t)

TopKTruncatedWithTie ==
    /\ Served(1) /\ query_vec[1] # <<>>
    /\ Len(TableView) > TOP_K
    /\ answer[1].relevant_texts = <<ProfileRow(2), ProfileRow(4), ProfileRow(1), ProfileRow(3)>>

\* C6: a request's context is the one it would build running alone on the table,
\* whatever the other worker thread does meanwhile.
RequestsIndependent ==
    \A t \in Threads :
        (Served(t) /\ query_vec[t] # <<>>) =>
            answer[t].relevant_texts = relevant_texts(query_vec[t], TableView)

\* C7: after a start without the credential or without the profile file, the
\* readiness probe says not ready and every chat answer is the not-ready message.
ConfigErrorNotReady ==
    (phase = "serving" /\ (~GEMINI_API_KEY \/ ~profile.exists)) =>
        /\ ~health.rag_ready
        /\ \A t \in Threads : tpc[t] = "done" => answer[t].msg = NOT_READY_MSG

\* C8: every stored vector has VECTOR_DIM components.
StoredVectorsHaveDim ==
    \A r \in 1..Len(TableView) :
        Len(json_loads(TableView[r].vector_json)) = VECTOR_DIM

\* The non-blank lines of a string, each trimmed.
nonblank_lines(s) ==
    LET lines == str_split(s)
    IN  SelectSeq([k \in 1..Len(lines) |-> strip(lines[k])], LAMBDA l : l # <<>>)

RECURSIVE lines_of_chunks(_)
lines_of_chunks(cs) ==
    IF cs = <<>> THEN <<>> ELSE nonblank_lines(Head(cs)) \o lines_of_chunks(Tail(cs))

\* C9: the non-blank lines of the chunks, read in order and trimmed, are the
\* non-blank lines of the document, and no chunk is empty.
ChunkingLossless ==
    cpc = "returned" =>
        /\ lines_of_chunks(chunks) = nonblank_lines(text)
        /\ \A k \in 1..Len(chunks) : chunks[k] # <<>>

ChunkedAroundBlankLine ==
    /\ cpc = "returned"
    /\ Len(chunks) = 2
    /\ \E k \in 2..(Len(str_split(text)) - 1) : strip(str_split(text)[k]) = <<>>

\* C10: nothing of a run is durable before its commit: while the loop runs the
\* persisted table is empty, a process stop that discards inserted rows leaves it
\* empty, and the next start finds no rows and ingests again.
IngestionAllOrNothing ==
    /\ phase = "ingesting" => persisted = <<>>
    /\ lost > 0 => (persisted = <<>> /\ phase \in {"down", "ingesting"})

ReingestAfterLostInserts ==
    lost > 0 /\ phase = "ingesting" /\ pending # <<>>

====
